---- MODULE Spec2Model ----
(***************************************************************************)
(* A model of tlsping.Ping (src/cmd/tlsping/main.go, lines 132-292): the   *)
(* address resolver with its reachability probes, the fan-out of Count     *)
(* timed workers over a buffered result channel, the coordination          *)
(* goroutine that closes the channel, and the aggregator's drain loop.     *)
(*                                                                         *)
(* Strings that the code takes apart (the address, the host, the port) are *)
(* sequences of one-character strings.  The network is the environment:    *)
(* the outcome of net.LookupHost, of every probe dial and of every timed   *)
(* dial is chosen nondeterministically when the call is made.              *)
(***************************************************************************)
EXTENDS Integers, Sequences, FiniteSets, TLC

\* ------------------------------------------------------------------ bounds
\* Largest Config.Count a caller passes (and so the number of worker slots).
MaxCount == 2
\* Longest address string a caller passes.
MaxAddrLen == 2
\* Largest number of candidate addresses net.LookupHost returns.
MaxAddrs == 2

Workers == 1..MaxCount
\* Config.Count is an int: callers may pass zero and negative values.
CountInputs == (0 - 1)..MaxCount
\* The alphabet of address strings: a host/port character and the separator.
Chars == {"a", ":"}
IPs == {"ip1", "ip2"}
\* The elapsed times a successful dial reports, in clock ticks: a short and
\* a long one (the code never compares or branches on a duration).
Durations == {1, 2}

SeqUpTo(S, n) == UNION {[1..k -> S] : k \in 0..n}

\* ------------------------------------------------------------------ errors
\* An error value: its kind and the dial invocation that allocated it
\* (0 for the resolver's errors).  Nil is the nil error.
Nil == [kind |-> "nil", id |-> 0]
AddrError == [kind |-> "AddrError", id |-> 0]
DNSError == [kind |-> "DNSError", id |-> 0]
DialError(k, w) == [kind |-> k, id |-> w]

\* ----------------------------------------------------- net.SplitHostPort
HasColon(s) == \E k \in 1..Len(s) : s[k] = ":"
\* strings.LastIndexByte(hostport, ':'), 1-based; 0 when there is none.
LastColon(s) ==
  IF HasColon(s)
    THEN CHOOSE k \in 1..Len(s) :
           /\ s[k] = ":"
           /\ \A j \in (k + 1)..Len(s) : s[j] # ":"
    ELSE 0

\* net.SplitHostPort on strings without '[' and ']': the port starts after
\* the last colon ("missing port in address" when there is none), and the
\* host before it may hold no colon ("too many colons in address").
SplitHostPort(hostport) ==
  LET c == LastColon(hostport)
      h == SubSeq(hostport, 1, c - 1)
      p == SubSeq(hostport, c + 1, Len(hostport))
  IN  IF c = 0 THEN [host |-> <<>>, port |-> <<>>, err |-> AddrError]
      ELSE IF HasColon(h) THEN [host |-> <<>>, port |-> <<>>, err |-> AddrError]
      ELSE [host |-> h, port |-> p, err |-> Nil]

Localhost == <<"l", "o", "c", "a", "l", "h", "o", "s", "t">>

\* --------------------------------------------------------------- PingResult
NoStats == [Count |-> 0, Min |-> 0, Max |-> 0, Sum |-> 0]
ZeroResult == [Host |-> <<>>, IPAddr |-> "", Address |-> <<>>, Stats |-> NoStats]

RECURSIVE SumSeq(_)
SumSeq(s) == IF s = <<>> THEN 0 ELSE Head(s) + SumSeq(Tail(s))

\* summarize: count, minimum, maximum and the sum the mean is taken from
\* (it is not defined on the empty sequence, which Ping never passes).
summarize(ds) ==
  IF ds = <<>> THEN NoStats ELSE
  [Count |-> Len(ds),
   Min |-> CHOOSE m \in {ds[k] : k \in 1..Len(ds)} : \A k \in 1..Len(ds) : m <= ds[k],
   Max |-> CHOOSE m \in {ds[k] : k \in 1..Len(ds)} : \A k \in 1..Len(ds) : m >= ds[k],
   Sum |-> SumSeq(ds)]

setSummaryStats(r, ss) == [r EXCEPT !.Stats = ss]

\* ------------------------------------------------------------------- state
VARIABLES
  addr,        \* Ping's argument addr
  configIn,    \* the caller's Config as it was when Ping was called
  config,      \* *config, the caller's Config as it is now
  pingPc,      \* where Ping's own goroutine is
  panicMsg,    \* the run-time panic that unwound Ping ("" when there is none)
  rHost,       \* resolveAddr: host (resolveAddr's locals live until Ping
               \* has taken its results)
  rPort,       \* resolveAddr: port
  rAddrs,      \* resolveAddr: addrs
  rIdx,        \* resolveAddr: position of the range loop over addrs
  nLookups,    \* calls of net.LookupHost made so far
  probeLog,    \* the probe dials of the resolveAddr call, in order: [a, ok]
  host,        \* Ping: host
  ipAddr,      \* Ping: ipAddr
  port,        \* Ping: port
  target,      \* Ping: target, the <<ip, port>> the strategy f dials
  result,      \* Ping: result
  f,           \* Ping: the dial strategy f ("none" before it is chosen)
  chanCap,     \* cap(results); -1 before the channel is made
  results,     \* the buffer of the channel results
  closed,      \* whether results is closed
  nClose,      \* calls of close(results) made so far
  wg,          \* the WaitGroup's counter
  i,           \* Ping: the launch loop's i
  wpc,         \* each worker goroutine's position
  wres,        \* each worker's (d, err) from timeit
  coordPc,     \* the coordination goroutine's position
  durations,   \* Ping: durations
  ret,         \* what Ping returned: [result, err]
  summarized,  \* the arguments of the calls of summarize made so far
  sent,        \* the sends on results so far, in order: [msg, by]
  received,    \* the values the range loop has received so far, in order
  sendPanic,   \* the workers that sent on the closed channel
  dialled      \* the targets the timed dials have gone to

vars == <<addr, configIn, config, pingPc, panicMsg, rHost, rPort, rAddrs, rIdx,
          nLookups, probeLog, host, ipAddr, port, target, result, f, chanCap, results,
          closed, nClose, wg, i, wpc, wres, coordPc, durations, ret, summarized,
          sent, received, sendPanic, dialled>>

resolverVars == <<rHost, rPort, rAddrs, rIdx, nLookups, probeLog>>
samplerVars == <<chanCap, results, closed, nClose, wg, i, wpc, wres, coordPc,
                 durations, summarized, sent, received, sendPanic, dialled>>

\* The run-time panics the code can raise.
IndexOutOfRange == "index out of range"
MakeChanSize == "makechan: size out of range"

NoTarget == <<"", <<>>>>
\* Config.Ip: empty, or an address (one the lookup may also return).
NoIp == ""
IpInputs == {NoIp, "ip2"}

NoMsg == [seconds |-> 0, err |-> Nil]
NoReturn == [result |-> ZeroResult, err |-> Nil]

\* The state when Ping is called, with Config.Ip drawn from ips.
InitWith(ips) ==
  /\ addr \in SeqUpTo(Chars, MaxAddrLen)
  /\ configIn \in [Count : CountInputs, AvoidTLSHandshake : BOOLEAN, Ip : ips]
  /\ config = configIn
  /\ pingPc = "entry"
  /\ panicMsg = ""
  /\ rHost = <<>>
  /\ rPort = <<>>
  /\ rAddrs = <<>>
  /\ rIdx = 0
  /\ nLookups = 0
  /\ probeLog = <<>>
  /\ host = <<>>
  /\ ipAddr = ""
  /\ port = <<>>
  /\ target = NoTarget
  /\ result = ZeroResult
  /\ f = "none"
  /\ chanCap = 0 - 1
  /\ results = <<>>
  /\ closed = FALSE
  /\ nClose = 0
  /\ wg = 0
  /\ i = 0
  /\ wpc = [w \in Workers |-> "unborn"]
  /\ wres = [w \in Workers |-> NoMsg]
  /\ coordPc = "unborn"
  /\ durations = <<>>
  /\ ret = NoReturn
  /\ summarized = <<>>
  /\ sent = <<>>
  /\ received = <<>>
  /\ sendPanic = {}
  /\ dialled = {}

\* Ping is called with Config.Ip left empty.
Init == InitWith({NoIp})
\* Ping is called with Config.Ip empty or set.
IpInit == InitWith(IpInputs)

\* ------------------------------------------------------------ Ping, entry
\* Lines 176-178: a Count of zero becomes 1, written through the pointer.
NormalizeCount(c) == IF c.Count = 0 THEN [c EXCEPT !.Count = 1] ELSE c

PingEntry ==
  /\ pingPc = "entry"
  /\ config' = NormalizeCount(config)
  /\ pingPc' = "split"
  /\ UNCHANGED <<panicMsg, addr, configIn, host, ipAddr, port, target, result, f, ret>>
  /\ UNCHANGED resolverVars
  /\ UNCHANGED samplerVars

\* Mutant: Ping goes on after resolveAddr failed.
ResolveFailedIgnored(e) ==
  /\ pingPc' = "setup"
  /\ UNCHANGED <<host, ipAddr, port, target, ret>>

\* Ping's "return PingResult{}, err" after resolveAddr failed (lines 180-182).
ResolveFailed(e) ==
  /\ ret' = [result |-> ZeroResult, err |-> e]
  /\ pingPc' = "returned"
  /\ UNCHANGED <<host, ipAddr, port, target>>

\* Ping's assignment of resolveAddr's results (line 179), err == nil.
Resolved(h, a, p) ==
  /\ host' = h
  /\ ipAddr' = a
  /\ port' = p
  /\ pingPc' = "setup"
  /\ UNCHANGED <<ret, target>>

\* Mutant: an empty host is kept.
DefaultHostKept(h) == h
\* Lines 276-278: an empty host stands for "localhost".
DefaultHost(h) == IF Len(h) = 0 THEN Localhost ELSE h

\* Mutant: the error of net.SplitHostPort is not looked at.
ResolveSplitUnchecked ==
  /\ pingPc = "split"
  /\ LET s == SplitHostPort(addr)
     IN  /\ rHost' = DefaultHost(s.host)
         /\ rPort' = s.port
         /\ pingPc' = "lookup"
         /\ UNCHANGED <<host, ipAddr, port, target, ret>>
  /\ UNCHANGED <<panicMsg, addr, configIn, config, result, f, rAddrs, rIdx, nLookups, probeLog>>
  /\ UNCHANGED samplerVars

\* resolveAddr, lines 272-278: split the address, default the host.
ResolveSplit ==
  /\ pingPc = "split"
  /\ LET s == SplitHostPort(addr)
     IN  IF s.err # Nil
           THEN /\ ResolveFailed(s.err)
                /\ UNCHANGED <<rHost, rPort>>
           ELSE /\ rHost' = DefaultHost(s.host)
                /\ rPort' = s.port
                /\ pingPc' = "lookup"
                /\ UNCHANGED <<host, ipAddr, port, target, ret>>
  /\ UNCHANGED <<panicMsg, addr, configIn, config, result, f, rAddrs, rIdx, nLookups, probeLog>>
  /\ UNCHANGED samplerVars

\* What net.LookupHost may return: an error, or a list of addresses.
LookupOutcomes ==
  {[addrs |-> <<>>, err |-> DNSError]}
    \cup {[addrs |-> l, err |-> Nil] : l \in SeqUpTo(IPs, MaxAddrs)}

\* resolveAddr, lines 279-283: the name lookup.
ResolveLookup ==
  /\ pingPc = "lookup"
  /\ nLookups' = nLookups + 1
  /\ \E o \in LookupOutcomes :
       IF o.err # Nil
         THEN /\ ResolveFailed(o.err)
              /\ UNCHANGED <<rAddrs, rIdx>>
         ELSE /\ rAddrs' = o.addrs
              /\ rIdx' = 1
              /\ pingPc' = "probe"
              /\ UNCHANGED <<host, ipAddr, port, target, ret>>
  /\ UNCHANGED <<panicMsg, addr, configIn, config, result, f, rHost, rPort, probeLog>>
  /\ UNCHANGED samplerVars

\* resolveAddr, lines 284-290: one iteration of the probe loop.
ResolveProbe ==
  /\ pingPc = "probe"
  /\ rIdx <= Len(rAddrs)
  /\ \E ok \in BOOLEAN :
       /\ probeLog' = Append(probeLog, [a |-> rAddrs[rIdx], ok |-> ok])
       /\ IF ok
            THEN /\ Resolved(rHost, rAddrs[rIdx], rPort)
                 /\ UNCHANGED rIdx
            ELSE /\ rIdx' = rIdx + 1
                 /\ UNCHANGED <<host, ipAddr, port, target, ret, pingPc>>
  /\ UNCHANGED <<panicMsg, addr, configIn, config, result, f, rHost, rPort, rAddrs, nLookups>>
  /\ UNCHANGED samplerVars

\* Mutant: with no probe succeeding, the last candidate is returned.
ResolveFallbackLast ==
  /\ pingPc = "probe"
  /\ rIdx > Len(rAddrs)
  /\ IF Len(rAddrs) = 0
       THEN /\ pingPc' = "panicked"
            /\ panicMsg' = IndexOutOfRange
            /\ UNCHANGED <<host, ipAddr, port, target, ret>>
       ELSE /\ Resolved(rHost, rAddrs[Len(rAddrs)], rPort)
            /\ UNCHANGED panicMsg
  /\ UNCHANGED <<addr, configIn, config, result, f>>
  /\ UNCHANGED resolverVars
  /\ UNCHANGED samplerVars

\* resolveAddr, line 291: no probe succeeded, return addrs[0].  Indexing an
\* empty slice is a run-time panic, which unwinds Ping.
ResolveFallback ==
  /\ pingPc = "probe"
  /\ rIdx > Len(rAddrs)
  /\ IF Len(rAddrs) = 0
       THEN /\ pingPc' = "panicked"
            /\ panicMsg' = IndexOutOfRange
            /\ UNCHANGED <<host, ipAddr, port, target, ret>>
       ELSE /\ Resolved(rHost, rAddrs[1], rPort)
            /\ UNCHANGED panicMsg
  /\ UNCHANGED <<addr, configIn, config, result, f>>
  /\ UNCHANGED resolverVars
  /\ UNCHANGED samplerVars

\* ------------------------------------------------------- dial strategies
\* Mutant: the TLS strategy whatever the configuration says.
ChooseStrategyTLS(c) == "tls"
\* Lines 193-214: the strategy is chosen once, from the configuration.
ChooseStrategy(c) == IF c.AvoidTLSHandshake THEN "tcp" ELSE "tls"

\* The errors a strategy's dial can return: d.Dial fails to connect;
\* tls.DialWithDialer fails to connect or fails the handshake.
DialErrorKinds(s) ==
  IF s = "tcp" THEN {"ConnectError"} ELSE {"ConnectError", "TLSHandshakeError"}

\* timeit, lines 256-264: (elapsed, nil) when f succeeds, (0, err) otherwise.
timeit(s, w) ==
  {[seconds |-> d, err |-> Nil] : d \in Durations}
    \cup {[seconds |-> 0, err |-> DialError(k, w)] : k \in DialErrorKinds(s)}

\* ------------------------------------------------------------ Ping, sampler
\* Mutant: an unbuffered result channel.
ChanUnbuffered(c) == 0
\* Line 217: the capacity of the result channel.
ChanCapacity(c) == c.Count
\* Mutant: the WaitGroup counts one worker too few.
WaitGroupAddShort(c) == c.Count - 1
\* Line 219: the count the WaitGroup starts from.
WaitGroupAdd(c) == c.Count

\* Mutant: the result's Address is the address dialled, not the one given.
NewResultDialled(h, a, ad) ==
  [ZeroResult EXCEPT !.Host = h, !.IPAddr = a, !.Address = <<a>>]
\* Lines 183-187: the result before the statistics are set.
NewResult(h, a, ad) == [ZeroResult EXCEPT !.Host = h, !.IPAddr = a, !.Address = ad]

\* Mutant: a non-empty Config.Ip replaces the resolved address.
DialTargetOverride(c, a, p) == IF c.Ip # NoIp THEN <<c.Ip, p>> ELSE <<a, p>>
\* Line 188: net.JoinHostPort(ipAddr, port), as the pair it joins.
DialTarget(c, a, p) == <<a, p>>

\* Lines 183-219: the result, the strategy, the channel and the WaitGroup.
\* make(chan T, n) with a negative n is a run-time panic.  resolveAddr's
\* frame is gone by now.
PingSetup ==
  /\ pingPc = "setup"
  /\ result' = NewResult(host, ipAddr, addr)
  /\ target' = DialTarget(config, ipAddr, port)
  /\ f' = ChooseStrategy(config)
  /\ IF ChanCapacity(config) < 0
       THEN /\ pingPc' = "panicked"
            /\ panicMsg' = MakeChanSize
            /\ UNCHANGED <<chanCap, wg, i>>
       ELSE /\ chanCap' = ChanCapacity(config)
            /\ UNCHANGED panicMsg
            /\ wg' = WaitGroupAdd(config)
            /\ i' = 0
            /\ pingPc' = "launch"
  /\ rHost' = <<>>
  /\ rPort' = <<>>
  /\ rAddrs' = <<>>
  /\ rIdx' = 0
  /\ probeLog' = <<>>
  /\ UNCHANGED <<addr, configIn, config, host, ipAddr, port, ret, nLookups>>
  /\ UNCHANGED <<results, closed, nClose, wpc, wres, coordPc, durations,
                 summarized, sent, received, sendPanic, dialled>>

\* Lines 220-229: one iteration of the launch loop starts a worker.
PingLaunch ==
  /\ pingPc = "launch"
  /\ i < config.Count
  /\ wpc' = [wpc EXCEPT ![i + 1] = "dial"]
  /\ i' = i + 1
  /\ UNCHANGED <<panicMsg, addr, configIn, config, pingPc, host, ipAddr, port, target, result, f, ret>>
  /\ UNCHANGED resolverVars
  /\ UNCHANGED <<chanCap, results, closed, nClose, wg, wres, coordPc, durations,
                 summarized, sent, received, sendPanic, dialled>>

\* Lines 231-238: the loop is over; start the coordination goroutine and
\* make the durations slice.
PingSpawnCoordinator ==
  /\ pingPc = "launch"
  /\ i >= config.Count
  /\ coordPc' = "wait"
  /\ durations' = <<>>
  /\ pingPc' = "collect"
  /\ UNCHANGED <<panicMsg, addr, configIn, config, host, ipAddr, port, target, result, f, ret>>
  /\ UNCHANGED resolverVars
  /\ UNCHANGED <<chanCap, results, closed, nClose, wg, i, wpc, wres,
                 summarized, sent, received, sendPanic, dialled>>

\* Worker, line 223: the timed dial.
WorkerDial(w) ==
  /\ wpc[w] = "dial"
  /\ \E o \in timeit(f, w) : wres' = [wres EXCEPT ![w] = o]
  /\ dialled' = dialled \cup {target}
  /\ wpc' = [wpc EXCEPT ![w] = "send"]
  /\ UNCHANGED <<panicMsg, addr, configIn, config, pingPc, host, ipAddr, port, target, result, f, ret>>
  /\ UNCHANGED resolverVars
  /\ UNCHANGED <<chanCap, results, closed, nClose, wg, i, coordPc, durations,
                 summarized, sent, received, sendPanic>>

\* Mutant: the worker sends its outcome twice.
WorkerSendTwice(w) ==
  /\ wpc[w] = "send"
  /\ \/ closed
     \/ Len(results) < chanCap
     \/ (pingPc = "collect" /\ results = <<>>)
  /\ IF closed
       THEN /\ sendPanic' = sendPanic \cup {w}
            /\ wpc' = [wpc EXCEPT ![w] = "panicked"]
            /\ UNCHANGED <<results, sent>>
       ELSE /\ results' = Append(Append(results, wres[w]), wres[w])
            /\ sent' = Append(Append(sent, [msg |-> wres[w], by |-> w]),
                               [msg |-> wres[w], by |-> w])
            /\ wpc' = [wpc EXCEPT ![w] = "deferred"]
            /\ UNCHANGED sendPanic
  /\ UNCHANGED <<panicMsg, addr, configIn, config, pingPc, host, ipAddr, port, target, result, f, ret>>
  /\ UNCHANGED resolverVars
  /\ UNCHANGED <<chanCap, closed, nClose, wg, i, wres, coordPc, durations,
                 summarized, received, dialled>>

\* Worker, lines 224-227: the send.  It goes through when the buffer has room
\* or the range loop is waiting on the empty channel to take the value; it
\* blocks otherwise; on a closed channel it panics.
WorkerSend(w) ==
  /\ wpc[w] = "send"
  /\ \/ closed
     \/ Len(results) < chanCap
     \/ (pingPc = "collect" /\ results = <<>>)
  /\ IF closed
       THEN /\ sendPanic' = sendPanic \cup {w}
            /\ wpc' = [wpc EXCEPT ![w] = "panicked"]
            /\ UNCHANGED <<results, sent>>
       ELSE /\ results' = Append(results, wres[w])
            /\ sent' = Append(sent, [msg |-> wres[w], by |-> w])
            /\ wpc' = [wpc EXCEPT ![w] = "deferred"]
            /\ UNCHANGED sendPanic
  /\ UNCHANGED <<panicMsg, addr, configIn, config, pingPc, host, ipAddr, port, target, result, f, ret>>
  /\ UNCHANGED resolverVars
  /\ UNCHANGED <<chanCap, closed, nClose, wg, i, wres, coordPc, durations,
                 summarized, received, dialled>>

\* Worker, line 222: the deferred wg.Done().
WorkerDone(w) ==
  /\ wpc[w] = "deferred"
  /\ wg' = wg - 1
  /\ wpc' = [wpc EXCEPT ![w] = "done"]
  /\ UNCHANGED <<panicMsg, addr, configIn, config, pingPc, host, ipAddr, port, target, result, f, ret>>
  /\ UNCHANGED resolverVars
  /\ UNCHANGED <<chanCap, results, closed, nClose, i, wres, coordPc, durations,
                 summarized, sent, received, sendPanic, dialled>>

\* Mutant: the coordination goroutine does not wait for the workers.
CoordNoWait ==
  /\ coordPc = "wait"
  /\ coordPc' = "close"
  /\ UNCHANGED <<panicMsg, addr, configIn, config, pingPc, host, ipAddr, port, target, result, f, ret>>
  /\ UNCHANGED resolverVars
  /\ UNCHANGED <<chanCap, results, closed, nClose, wg, i, wpc, wres, durations,
                 summarized, sent, received, sendPanic, dialled>>

\* Coordination goroutine, line 233: wg.Wait() returns when the counter is 0.
CoordWait ==
  /\ coordPc = "wait"
  /\ wg = 0
  /\ coordPc' = "close"
  /\ UNCHANGED <<panicMsg, addr, configIn, config, pingPc, host, ipAddr, port, target, result, f, ret>>
  /\ UNCHANGED resolverVars
  /\ UNCHANGED <<chanCap, results, closed, nClose, wg, i, wpc, wres, durations,
                 summarized, sent, received, sendPanic, dialled>>

\* Coordination goroutine, line 234: close(results).
CoordClose ==
  /\ coordPc = "close"
  /\ closed' = TRUE
  /\ nClose' = nClose + 1
  /\ coordPc' = "done"
  /\ UNCHANGED <<panicMsg, addr, configIn, config, pingPc, host, ipAddr, port, target, result, f, ret>>
  /\ UNCHANGED resolverVars
  /\ UNCHANGED <<chanCap, results, wg, i, wpc, wres, durations,
                 summarized, sent, received, sendPanic, dialled>>

\* Mutant: the range loop keeps only the duration it received last.
PingReceiveOverwrite ==
  /\ pingPc = "collect"
  /\ Len(results) > 0
  /\ LET res == Head(results)
     IN  /\ results' = Tail(results)
         /\ received' = Append(received, res)
         /\ IF res.err # Nil
              THEN /\ ret' = [result |-> result, err |-> res.err]
                   /\ pingPc' = "returned"
                   /\ UNCHANGED durations
              ELSE /\ durations' = <<res.seconds>>
                   /\ UNCHANGED <<ret, pingPc>>
  /\ UNCHANGED <<panicMsg, addr, configIn, config, host, ipAddr, port, target, result, f>>
  /\ UNCHANGED resolverVars
  /\ UNCHANGED <<chanCap, closed, nClose, wg, i, wpc, wres, coordPc,
                 summarized, sent, sendPanic, dialled>>

\* Mutant: on a failed outcome the zero PingResult is returned.
PingReceiveZeroOnError ==
  /\ pingPc = "collect"
  /\ Len(results) > 0
  /\ LET res == Head(results)
     IN  /\ results' = Tail(results)
         /\ received' = Append(received, res)
         /\ IF res.err # Nil
              THEN /\ ret' = [result |-> ZeroResult, err |-> res.err]
                   /\ pingPc' = "returned"
                   /\ UNCHANGED durations
              ELSE /\ durations' = Append(durations, res.seconds)
                   /\ UNCHANGED <<ret, pingPc>>
  /\ UNCHANGED <<panicMsg, addr, configIn, config, host, ipAddr, port, target, result, f>>
  /\ UNCHANGED resolverVars
  /\ UNCHANGED <<chanCap, closed, nClose, wg, i, wpc, wres, coordPc,
                 summarized, sent, sendPanic, dialled>>

\* Mutant: the range loop drops a failed outcome and goes on.
PingReceiveSkipErrors ==
  /\ pingPc = "collect"
  /\ Len(results) > 0
  /\ LET res == Head(results)
     IN  /\ results' = Tail(results)
         /\ received' = Append(received, res)
         /\ IF res.err # Nil
              THEN UNCHANGED durations
              ELSE durations' = Append(durations, res.seconds)
  /\ UNCHANGED <<ret, pingPc>>
  /\ UNCHANGED <<panicMsg, addr, configIn, config, host, ipAddr, port, target, result, f>>
  /\ UNCHANGED resolverVars
  /\ UNCHANGED <<chanCap, closed, nClose, wg, i, wpc, wres, coordPc,
                 summarized, sent, sendPanic, dialled>>

\* Lines 239-244: the range loop receives one value; an error returns at once.
PingReceive ==
  /\ pingPc = "collect"
  /\ Len(results) > 0
  /\ LET res == Head(results)
     IN  /\ results' = Tail(results)
         /\ received' = Append(received, res)
         /\ IF res.err # Nil
              THEN /\ ret' = [result |-> result, err |-> res.err]
                   /\ pingPc' = "returned"
                   /\ UNCHANGED durations
              ELSE /\ durations' = Append(durations, res.seconds)
                   /\ UNCHANGED <<ret, pingPc>>
  /\ UNCHANGED <<panicMsg, addr, configIn, config, host, ipAddr, port, target, result, f>>
  /\ UNCHANGED resolverVars
  /\ UNCHANGED <<chanCap, closed, nClose, wg, i, wpc, wres, coordPc,
                 summarized, sent, sendPanic, dialled>>

\* Mutant: the loop ends as soon as the channel is empty, closed or not.
PingFinishOnEmpty ==
  /\ pingPc = "collect"
  /\ Len(results) = 0
  /\ summarized' = Append(summarized, durations)
  /\ result' = setSummaryStats(result, summarize(durations))
  /\ ret' = [result |-> result', err |-> Nil]
  /\ pingPc' = "returned"
  /\ UNCHANGED <<panicMsg, addr, configIn, config, host, ipAddr, port, target, f>>
  /\ UNCHANGED resolverVars
  /\ UNCHANGED <<chanCap, results, closed, nClose, wg, i, wpc, wres, coordPc,
                 durations, sent, received, sendPanic, dialled>>

\* Lines 239, 245-246: the channel is closed and drained, so the range loop
\* ends; summarize the durations and return.
PingFinish ==
  /\ pingPc = "collect"
  /\ Len(results) = 0
  /\ closed
  /\ summarized' = Append(summarized, durations)
  /\ result' = setSummaryStats(result, summarize(durations))
  /\ ret' = [result |-> result', err |-> Nil]
  /\ pingPc' = "returned"
  /\ UNCHANGED <<panicMsg, addr, configIn, config, host, ipAddr, port, target, f>>
  /\ UNCHANGED resolverVars
  /\ UNCHANGED <<chanCap, results, closed, nClose, wg, i, wpc, wres, coordPc,
                 durations, sent, received, sendPanic, dialled>>

\* ------------------------------------------------------------ specification
PingMain ==
  \/ PingEntry
  \/ ResolveSplit
  \/ ResolveLookup
  \/ ResolveProbe
  \/ ResolveFallback
  \/ PingSetup
  \/ PingLaunch
  \/ PingSpawnCoordinator
  \/ PingReceive
  \/ PingFinish

Worker(w) ==
  \/ WorkerDial(w)
  \/ WorkerSend(w)
  \/ WorkerDone(w)

Coordinator ==
  \/ CoordWait
  \/ CoordClose

Next ==
  \/ PingMain
  \/ \E w \in Workers : Worker(w)
  \/ Coordinator

Spec == Init /\ [][Next]_vars

\* The same program, called with Config.Ip empty or set.
IpSpec == IpInit /\ [][Next]_vars

\* The Go scheduler runs every runnable goroutine eventually, and every dial
\* returns within its timeout.
FairSpec ==
  /\ Spec
  /\ WF_vars(PingMain)
  /\ \A w \in Workers : WF_vars(Worker(w))
  /\ WF_vars(Coordinator)

\* ------------------------------------------------------------------ claims
\* The workers Ping has started.
Launched == {w \in Workers : wpc[w] # "unborn"}
\* Worker w's timed attempt is over: timeit has returned.
Attempted(w) == wpc[w] \notin {"unborn", "dial"}
AttemptFailed(w) == Attempted(w) /\ wres[w].err # Nil
AttemptSucceeded(w) == Attempted(w) /\ wres[w].err = Nil
\* The sampler is running: the channel exists and its size is Count.
SamplerStarted == chanCap >= 0
Senders == {sent[k].by : k \in 1..Len(sent)}
\* The position in arrival order of the first failed outcome (0: none).
FirstFailure ==
  IF \E k \in 1..Len(sent) : sent[k].msg.err # Nil
    THEN CHOOSE k \in 1..Len(sent) :
           /\ sent[k].msg.err # Nil
           /\ \A j \in 1..(k - 1) : sent[j].msg.err = Nil
    ELSE 0

\* C1: once a timed attempt has failed, summarize is never called (no
\* statistics over a part of the attempts), the result carries no
\* statistics, and a Ping that has returned has returned a non-nil error.
C1_NoPartialSummary ==
  (config.Count >= 1 /\ \E w \in Workers : AttemptFailed(w)) =>
    /\ summarized = <<>>
    /\ result.Stats = NoStats
    /\ pingPc = "returned" => (ret.err # Nil /\ ret.result.Stats = NoStats)

\* C1 witness: Ping has returned an error although another attempt succeeded.
C1_Witness ==
  /\ pingPc = "returned"
  /\ ret.err # Nil
  /\ \E v, w \in Workers : AttemptFailed(v) /\ AttemptSucceeded(w) /\ wpc[w] = "done"

\* C2: when all Count attempts have succeeded and Ping has returned, it has
\* returned nil, summarize was called once, with durations, and durations
\* holds exactly Count values: the value of every worker, each once.
C2_AllCollected ==
  (/\ pingPc = "returned"
   /\ config.Count >= 1
   /\ SamplerStarted
   /\ \A w \in 1..config.Count : AttemptSucceeded(w)) =>
    /\ ret.err = Nil
    /\ summarized = <<durations>>
    /\ Len(durations) = config.Count
    /\ Len(sent) = config.Count
    /\ Senders = 1..config.Count
    /\ \A k \in 1..Len(durations) : durations[k] = wres[sent[k].by].seconds

\* C2 witness: two workers succeeded with different durations, collected in
\* the order opposite to their launch.
C2_Witness ==
  /\ pingPc = "returned"
  /\ ret.err = Nil
  /\ Len(durations) = 2
  /\ durations[1] # durations[2]
  /\ sent[1].by = 2

\* C3 (state part): close(results) is called at most once, and only when
\* every one of the Count workers has sent; every worker sends at most once,
\* so never more than Count values are sent; no worker sends on the closed
\* channel.
C3_ClosedAfterAllSent ==
  /\ nClose <= 1
  /\ closed <=> nClose = 1
  /\ closed => (Len(sent) = config.Count /\ Senders = 1..config.Count)
  /\ Len(sent) <= config.Count \/ ~SamplerStarted
  /\ Cardinality(Senders) = Len(sent)
  /\ sendPanic = {}

\* C3: in every run that reaches the launch loop the channel is closed
\* exactly once, after all Count workers have sent, and nothing is sent on
\* the closed channel.
C3_ClosedExactlyOnce ==
  /\ []C3_ClosedAfterAllSent
  /\ (pingPc = "launch") ~> (nClose = 1 /\ Len(sent) = config.Count)

\* C3 witness: the channel is closed with two outcomes sent.
C3_Witness == closed /\ nClose = 1 /\ Len(sent) = 2

\* C4: under fair scheduling, with every dial returning, a Ping called with
\* Count >= 1 eventually returns to its caller.
C4_PingReturns ==
  (pingPc = "entry" /\ config.Count >= 1) ~> (pingPc = "returned")

\* C4, the part about the drain loop: once the sampler has started, the range
\* loop ends: Ping returns.
C4_DrainLoopEnds == (pingPc = "collect") ~> (pingPc = "returned")

\* Ping has returned the error of a timed attempt.
EarlyReturn == pingPc = "returned" /\ SamplerStarted /\ ret.err # Nil

\* C5: after Ping has returned on the first error, no worker is ever blocked
\* in its send (the buffer has room), and eventually every worker has
\* finished and the coordination goroutine has closed the channel.
C5_StragglersFinish ==
  /\ [](EarlyReturn => \A w \in Workers : wpc[w] = "send" => Len(results) < chanCap)
  /\ EarlyReturn ~>
       (/\ closed
        /\ coordPc = "done"
        /\ \A w \in 1..config.Count : wpc[w] = "done")

\* C5 witness: Ping has returned an error while a worker has not yet dialled.
C5_Witness == EarlyReturn /\ \E w \in Workers : wpc[w] = "dial"

\* C6: once a failed outcome has been sent and Ping has returned, the error
\* returned is the error of the first failed outcome in arrival order, and
\* the range loop received exactly the outcomes up to that one, in arrival
\* order, and none after it.
C6_FirstErrorInArrivalOrder ==
  (pingPc = "returned" /\ FirstFailure > 0) =>
    /\ ret.err = sent[FirstFailure].msg.err
    /\ Len(received) = FirstFailure
    /\ \A k \in 1..Len(received) : received[k] = sent[k].msg

\* C6 witness: the error returned is the second worker's, although the first
\* worker fails too, and a worker is still running when Ping returns.
C6_Witness ==
  /\ pingPc = "returned"
  /\ ret.err.id = 2
  /\ \/ wpc[1] = "dial"
     \/ AttemptFailed(1)

\* C7: resolveAddr probes the candidates in the order of the list, stops at
\* the first probe that succeeds and returns that candidate; when every
\* probe has failed it returns the first candidate, with a nil error.
C7_FirstReachableOrFirst ==
  /\ pingPc \in {"probe", "setup"} =>
       /\ Len(probeLog) <= Len(rAddrs)
       /\ \A k \in 1..Len(probeLog) : probeLog[k].a = rAddrs[k]
       /\ \A k \in 1..(Len(probeLog) - 1) : ~probeLog[k].ok
  /\ (pingPc = "setup" /\ rAddrs # <<>>) =>
       /\ ret.err = Nil
       /\ IF probeLog # <<>> /\ probeLog[Len(probeLog)].ok
            THEN ipAddr = rAddrs[Len(probeLog)]
            ELSE Len(probeLog) = Len(rAddrs) /\ ipAddr = rAddrs[1]

\* C7 witness: the first candidate's probe failed, the second one's
\* succeeded, and the second candidate is returned.
C7_Witness ==
  /\ pingPc = "setup"
  /\ Len(rAddrs) >= 2
  /\ rAddrs[1] # rAddrs[2]
  /\ Len(probeLog) = 2
  /\ probeLog[2].ok
  /\ ipAddr = rAddrs[2]

\* The name lookup is over and has yielded no candidate address.
NoCandidate ==
  /\ nLookups = 1
  /\ pingPc \in {"returned", "panicked"}
  /\ rAddrs = <<>>
  /\ ipAddr = ""

\* C8, as the claim states it: whenever the lookup yields no candidate, Ping
\* returns a resolution error and does not go on to index a candidate.
C8_AsStated ==
  NoCandidate => (pingPc = "returned" /\ ret.err = DNSError /\ panicMsg = "")

\* The address has no ':' or more than one: it does not split.
Colons(s) == {k \in 1..Len(s) : s[k] = ":"}
Malformed(s) == Cardinality(Colons(s)) # 1

\* C9: for an address that does not split into host and port, Ping returns
\* the address error with the zero result, having made no name lookup, no
\* probe and no channel, launched no worker and dialled nothing.
C9_AddressErrorBeforeIO ==
  /\ pingPc \in {"entry", "split"} => nLookups = 0 /\ probeLog = <<>> /\ Launched = {}
  /\ (Malformed(addr) /\ pingPc \notin {"entry", "split"}) =>
       /\ pingPc = "returned"
       /\ ret = [result |-> ZeroResult, err |-> AddrError]
       /\ nLookups = 0
       /\ probeLog = <<>>
       /\ ~SamplerStarted
       /\ Launched = {}
       /\ sent = <<>>

\* C9 witness: Ping has returned for an address with two colons.
C9_Witness ==
  /\ pingPc = "returned"
  /\ Cardinality(Colons(addr)) = 2
  /\ ret.err = AddrError

\* C10, as the claim states it: with a Count of zero or less Ping behaves as
\* with a Count of 1: it does not panic, launches exactly one worker and
\* summarizes exactly one duration.
C10_AsStated ==
  configIn.Count <= 0 =>
    /\ panicMsg = ""
    /\ coordPc # "unborn" => Cardinality(Launched) = 1
    /\ \A k \in 1..Len(summarized) : Len(summarized[k]) = 1

\* resolveAddr is over and Ping has its results (a panic in it aside).
ResolverReturned ==
  /\ pingPc \notin {"entry", "split", "lookup", "probe"}
  /\ panicMsg # IndexOutOfRange
\* resolveAddr has returned an error to Ping.
ResolverError == pingPc = "returned" /\ ret.err \in {AddrError, DNSError}

\* C11: a worker is launched, the strategy is chosen and a timed dial is made
\* only after resolveAddr has returned an address (its one lookup and its
\* probes are over); after a resolver error no worker is ever launched, no
\* strategy is chosen and nothing is dialled.
C11_ResolveBeforeTiming ==
  /\ (Launched # {} \/ f # "none" \/ dialled # {} \/ SamplerStarted) =>
       /\ ResolverReturned
       /\ ipAddr \in IPs
       /\ nLookups = 1
       /\ probeLog = <<>>
       /\ ret.err \notin {AddrError, DNSError}
  /\ pingPc \in {"lookup", "probe"} => (Launched = {} /\ dialled = {} /\ f = "none")
  /\ ResolverError => (Launched = {} /\ dialled = {} /\ f = "none" /\ sent = <<>>)

\* C11 witness: a timed dial has been made, after the one lookup.
C11_Witness ==
  /\ dialled # {}
  /\ nLookups = 1
  /\ ipAddr \in IPs
  /\ Launched # {}

\* C12, as the claim states it: when Ping has returned, every field of the
\* caller's Config has the value it had when Ping was called.
C12_AsStated == pingPc = "returned" => config = configIn

\* The workers' outcomes the range loop has not received.
Discarded == Len(sent) - Len(received)
\* Everything is over: Ping has returned, the workers are done, the channel
\* is closed.
Quiescent ==
  /\ pingPc = "returned"
  /\ SamplerStarted
  /\ closed
  /\ \A w \in 1..config.Count : wpc[w] = "done"

\* C13, as the claim states it: when everything is over, every outcome was
\* produced by exactly one worker and consumed exactly once.
C13_AsStated ==
  Quiescent =>
    /\ Cardinality(Senders) = Len(sent)
    /\ Len(received) = Len(sent)

\* C13, amended: every outcome is produced by exactly one worker (a worker
\* sends once) and consumed at most once, in arrival order; when Ping returns
\* nil every outcome has been consumed exactly once; when it returns the
\* error of an attempt, the outcomes up to the first failed one have been
\* consumed exactly once and those after it never are.
C13_ConsumedAtMostOnce ==
  /\ Cardinality(Senders) = Len(sent)
  /\ \A k \in 1..Len(sent) : sent[k].msg = wres[sent[k].by]
  /\ Len(received) <= Len(sent)
  /\ \A k \in 1..Len(received) : received[k] = sent[k].msg
  /\ Len(results) = Discarded
  /\ \A k \in 1..Len(results) : results[k] = sent[Len(received) + k].msg
  /\ pingPc = "returned" /\ SamplerStarted /\ ret.err = Nil => Discarded = 0
  /\ Quiescent /\ ret.err # Nil =>
       /\ Len(received) = FirstFailure
       /\ Discarded = config.Count - FirstFailure
       /\ Len(sent) = config.Count

\* C13 witness: everything is over and an outcome was never consumed.
C13_Witness == Quiescent /\ ret.err # Nil /\ Discarded = 1

\* The host and port components of an address with exactly one ':'.
HostPart(s) == SubSeq(s, 1, (CHOOSE k \in Colons(s) : TRUE) - 1)
PortPart(s) == SubSeq(s, (CHOOSE k \in Colons(s) : TRUE) + 1, Len(s))
ExpectedHost(s) == IF HostPart(s) = <<>> THEN Localhost ELSE HostPart(s)

\* C14: when Ping has returned nil, the result carries the resolver's host,
\* the resolved address, which is the one every attempt dialled, the address
\* string as given, and a count equal to Config.Count.
C14_ResultIdentity ==
  (pingPc = "returned" /\ ret.err = Nil) =>
    /\ ret.result.Host = host
    /\ ret.result.Host = ExpectedHost(addr)
    /\ ret.result.IPAddr = ipAddr
    /\ ipAddr \in IPs
    /\ dialled = {<<ret.result.IPAddr, PortPart(addr)>>}
    /\ ret.result.Address = addr
    /\ ret.result.Stats.Count = config.Count
    /\ config.Count = Cardinality(Launched)

\* C14 witness: a successful run of two attempts for an address with a host.
C14_Witness ==
  /\ pingPc = "returned"
  /\ ret.err = Nil
  /\ HostPart(addr) # <<>>
  /\ ret.result.Stats.Count = 2

\* C15 (state part): in TCP-only mode the strategy is the TCP one from the
\* moment it is chosen, it is chosen before any worker starts, and no
\* outcome, sent, received or returned, is a TLS handshake error.
C15_NoHandshakeState ==
  /\ Launched # {} => f # "none"
  /\ configIn.AvoidTLSHandshake =>
       /\ f \in {"none", "tcp"}
       /\ \A w \in Workers : wres[w].err.kind # "TLSHandshakeError"
       /\ \A k \in 1..Len(sent) : sent[k].msg.err.kind # "TLSHandshakeError"
       /\ \A k \in 1..Len(received) : received[k].err.kind # "TLSHandshakeError"
       /\ ret.err.kind # "TLSHandshakeError"

\* C15: in TCP-only mode no outcome is ever a TLS handshake error, and the
\* strategy, once chosen, is never chosen again.
C15_TCPOnlyNoHandshake ==
  /\ []C15_NoHandshakeState
  /\ [][f # "none" => f' = f]_vars

\* C15 witness: in TCP-only mode an attempt failed and Ping returned its
\* error.
C15_Witness ==
  /\ configIn.AvoidTLSHandshake
  /\ pingPc = "returned"
  /\ ret.err.kind = "ConnectError"

\* C16, as the claim states it: for an address that splits, what resolveAddr
\* returns to Ping is the host component, or "localhost" for an empty one, so
\* never an empty host, and the port component.
C16_AsStated ==
  (~Malformed(addr) /\ ResolverReturned) =>
    /\ host = ExpectedHost(addr)
    /\ host # <<>>
    /\ port = PortPart(addr)

\* C16, amended: the same, whenever resolveAddr returns a nil error.
C16_HostAndPortOnSuccess ==
  (~Malformed(addr) /\ ResolverReturned /\ ~ResolverError) =>
    /\ host = ExpectedHost(addr)
    /\ host # <<>>
    /\ port = PortPart(addr)

\* C16 witness: resolveAddr has returned "localhost" for an empty host.
C16_Witness ==
  /\ pingPc = "setup"
  /\ HostPart(addr) = <<>>
  /\ host = Localhost

\* The workers' durations in launch order.
RECURSIVE LaunchOrder(_)
LaunchOrder(n) ==
  IF n = 0 THEN <<>> ELSE Append(LaunchOrder(n - 1), wres[n].seconds)

\* C17: when Ping has returned nil, the statistics are those of the workers'
\* durations taken in launch order, whatever the order they arrived in, and
\* Min <= mean <= Max.
C17_OrderIndependentStats ==
  (pingPc = "returned" /\ ret.err = Nil) =>
    /\ ret.result.Stats = summarize(LaunchOrder(config.Count))
    /\ ret.result.Stats.Min * ret.result.Stats.Count <= ret.result.Stats.Sum
    /\ ret.result.Stats.Sum <= ret.result.Stats.Max * ret.result.Stats.Count

\* C17 witness: two different durations arrived in the order opposite to the
\* launch order.
C17_Witness ==
  /\ pingPc = "returned"
  /\ ret.err = Nil
  /\ Len(durations) = 2
  /\ durations # LaunchOrder(2)

\* C18: when Ping returns the error of a timed attempt, the result returned
\* with it carries Host, IPAddr and Address and no statistics, so it is not
\* the zero PingResult; with a resolver error the zero PingResult is
\* returned.
C18_ResultOnError ==
  /\ (pingPc = "returned" /\ SamplerStarted /\ ret.err # Nil) =>
       /\ ret.result = [Host |-> host, IPAddr |-> ipAddr, Address |-> addr,
                        Stats |-> NoStats]
       /\ ret.result.Host # <<>>
       /\ ret.result.IPAddr \in IPs
       /\ ret.result # ZeroResult
  /\ ResolverError => ret.result = ZeroResult
  /\ (pingPc = "returned" /\ ret.result = ZeroResult) => ResolverError

\* C18 witness: Ping has returned a connect error.
C18_Witness ==
  /\ pingPc = "returned"
  /\ ret.err.kind = "ConnectError"
  /\ ret.result.Address = addr

\* C19: whatever Config.Ip is, the target dialled is the resolved address
\* with the address's port, the result carries the resolved address, the
\* strategy depends on AvoidTLSHandshake alone, and Config.Ip itself is left
\* as it was.
C19_IpIgnored ==
  /\ config.Ip = configIn.Ip
  /\ target # NoTarget => target = <<ipAddr, port>> /\ ipAddr \in IPs
  /\ dialled \subseteq {<<ipAddr, port>>}
  /\ f # "none" => f = (IF configIn.AvoidTLSHandshake THEN "tcp" ELSE "tls")
  /\ pingPc = "returned" =>
       \/ ResolverError /\ ret.result = ZeroResult
       \/ /\ ret.result.IPAddr = ipAddr
          /\ ret.result.Host = ExpectedHost(addr)
          /\ ret.result.Address = addr

\* C19 witness: Config.Ip is set to another address than the resolved one,
\* and the attempt went to the resolved one and succeeded.
C19_Witness ==
  /\ configIn.Ip # NoIp
  /\ configIn.Ip # ipAddr
  /\ pingPc = "returned"
  /\ ret.err = Nil
  /\ dialled = {<<ipAddr, port>>}
====
